---- MODULE Spec2Model ----
(***************************************************************************)
(* Model of Glue/etl.py: the monthly banking ETL job.                      *)
(*                                                                         *)
(*   Spec          one run of main(): import of the module, then the       *)
(*                 driver steps of lines 132-179, with the clock and the   *)
(*                 source database as the environment.                     *)
(*   SpecTransform one call transform_monthly_data(spark, table_name) on   *)
(*                 a joined data frame drawn from a bounded set.           *)
(*                                                                         *)
(* Calls into the libraries (Spark, boto3, JDBC, S3) either return or      *)
(* raise; which of the two is the environment's choice.                    *)
(***************************************************************************)
EXTENDS Integers, Sequences, FiniteSets, Bags, TLC

VARIABLES
    now,                \* the wall clock read by datetime.now(): <<y, m, d>>
    ticks,              \* days the clock advanced since the import
    year_month,         \* module global of line 23
    argv,               \* glueContext._jvm.sys.argv: <<script, table, ...>>
    secretResp,         \* what the secret store answers for the secret name
    inserted,           \* rows other clients added to the source during the run
    s3,                 \* object storage: path -> rows of the object
    pc,                 \* position of main()
    exc,                \* the exception being propagated, or "none"
    table_names,        \* main: args[1:]
    aurora_credentials, \* main: the parsed secret
    aurora_properties,  \* main: the connection properties
    start_date,         \* main: line 164
    end_date,           \* main: line 165
    idx,                \* main: position of the for loop of line 169
    df,                 \* extract_monthly_data: the loaded data frame
    log,                \* the records handed to the logger
    contextCreated,     \* line 134 returned
    sessionCreated,     \* create_spark_session returned
    sessionStopped,     \* spark.stop() returned
    secretLookups,      \* calls of get_secret_value
    dbReads,            \* JDBC loads attempted
    storageWrites,      \* S3 writes attempted
    extFailure,         \* a library call raised in this run
    transformCalled,    \* line 173 was executed
    failedAt,           \* loop position whose extraction raised, or 0
    trace,              \* the driver steps taken, in order
    dfFrom,             \* the state of the source table that df was loaded from
    prov,               \* path -> the state of the source its object was loaded from
    lastWrite,          \* the last completed landing write: what it found and left
    tpc,                \* position of transform_monthly_data
    joined_in,          \* transform: the rows the loads and the join produced
    joined_df,          \* transform: the local joined_df
    tlocals,            \* transform: the local names bound so far
    final_df,           \* transform: the local final_df
    tfailed             \* transform: a library call raised

driverVars == <<now, ticks, year_month, argv, secretResp, inserted, s3, pc, exc,
                table_names, aurora_credentials, aurora_properties, start_date,
                end_date, idx, df, log, contextCreated, sessionCreated,
                sessionStopped, secretLookups, dbReads, storageWrites,
                extFailure, transformCalled, failedAt, trace, dfFrom, prov,
                lastWrite>>

tvars == <<tpc, joined_in, joined_df, tlocals, final_df, tfailed>>

vars == <<driverVars, tvars>>

----------------------------------------------------------------------------
(* Bounds *)

MaxTables == 2        \* table names on the command line
MaxTicks == 1         \* days the clock may advance during a run
MaxInserts == 1       \* rows added to the source during a run
MaxRows == 3          \* rows of the joined data frame

----------------------------------------------------------------------------
(* Program constants *)

s3_base_path == "s3a://banking_data"
landing == "bronze"
transform == "silver"
Tables == {"Bank", "Loan"}
Script == "etl.py"
None == "None"
NoDate == <<0, 0, 0>>

\* line 110: rowsBetween(-2, 0)
FrameStart == -2
FrameEnd == 0

----------------------------------------------------------------------------
(* Calendar: datetime, calendar.monthrange, strftime *)

IsLeap(y) == (y % 4 = 0) /\ ((y % 100 # 0) \/ (y % 400 = 0))

\* calendar.monthrange(year, month)[1]: the number of days of the month
MonthRange(y, m) ==
    IF m = 2 THEN (IF IsLeap(y) THEN 29 ELSE 28)
    ELSE IF m \in {4, 6, 9, 11} THEN 30 ELSE 31

\* the clock one day later
NextDay(d) ==
    IF d[3] < MonthRange(d[1], d[2]) THEN <<d[1], d[2], d[3] + 1>>
    ELSE IF d[2] < 12 THEN <<d[1], d[2] + 1, 1>>
    ELSE <<d[1] + 1, 1, 1>>

\* strftime('%Y%m'): the six digits YYYYMM, as the number they spell
StrftimeYm(d) == d[1] * 100 + d[2]

\* str(date) inside the f-string: YYYY-MM-DD, zero padded, so that the order of
\* the strings is the order of the numbers YYYYMMDD
IsoFormat(d) == d[1] * 10000 + d[2] * 100 + d[3]

\* current_date.replace(day=1).date()
FirstOfMonth(d) == <<d[1], d[2], 1>>

\* current_date.replace(day=last_day).date()
LastOfMonth(d) == <<d[1], d[2], MonthRange(d[1], d[2])>>

----------------------------------------------------------------------------
(* The environment: clock, command line, secret store, source database *)

StartDates == { <<2023, 12, 31>>, <<2024, 2, 29>>, <<2023, 2, 28>>, <<2023, 4, 15>> }

SecretFields == {"endpoint", "username", "password"}

\* get_secret_value raises / SecretString is empty / it is no JSON / a mapping
SecretResponses ==
    { [kind |-> k, fields |-> {}] : k \in {"unavailable", "noValue", "malformed"} }
    \cup { [kind |-> "json", fields |-> f] : f \in SUBSET SecretFields }

SeqsUpTo(S, n) == UNION { [1..k -> S] : k \in 0..n }

Argvs == { <<Script>> \o ts : ts \in SeqsUpTo(Tables, MaxTables) }

\* the dates around the month ends the runs can meet
SourceDates ==
    { <<2023, 1, 31>>, <<2023, 2, 1>>, <<2023, 2, 27>>, <<2023, 2, 28>>,
      <<2023, 3, 1>>, <<2023, 3, 30>>, <<2023, 3, 31>>,
      <<2023, 4, 1>>, <<2023, 4, 29>>, <<2023, 4, 30>>,
      <<2023, 5, 1>>, <<2023, 5, 30>>, <<2023, 5, 31>>, <<2023, 6, 1>>,
      <<2023, 11, 30>>, <<2023, 12, 1>>, <<2023, 12, 30>>, <<2023, 12, 31>>,
      <<2024, 1, 1>>, <<2024, 1, 30>>, <<2024, 1, 31>>,
      <<2024, 2, 1>>, <<2024, 2, 28>>, <<2024, 2, 29>>,
      <<2024, 3, 1>>, <<2024, 3, 30>>, <<2024, 3, 31>>, <<2024, 4, 1>> }

Row(t, d, n) == [tbl |-> t, date_column |-> d, id |-> n]

\* the rows of table t: the ones it held at the start and the ones added since
Source(t) ==
    { Row(t, d, 0) : d \in SourceDates } \cup { r \in inserted : r.tbl = t }

\* an object left in the landing area by an earlier run
StaleRow == Row("Bank", <<1999, 1, 1>>, 0)

----------------------------------------------------------------------------
(* Object storage *)

File(stem, tail, date) == [stem |-> stem, tail |-> tail, date |-> date]

Path(area, dir, ym, file) ==
    [base |-> s3_base_path, area |-> area, dir |-> dir, ym |-> ym, file |-> file]

\* line 71: {s3_base_path}/{landing}/{table}/{year_month}/{table}_monthly_data_extract.csv
LandingPath(t, ym) ==
    Path(landing, t, ym, File(t, "_monthly_data_extract.csv", 0))

EmptyStore == [p \in {} |-> EmptyBag]

Put(store, p, rows) ==
    [q \in DOMAIN store \cup {p} |-> IF q = p THEN rows ELSE store[q]]

WriteAppend(store, p, rows) ==
    Put(store, p, IF p \in DOMAIN store THEN store[p] (+) rows ELSE rows)

\* line 72: df.write.mode('overwrite').csv(path)
WriteOverwrite(store, p, rows) == Put(store, p, rows)

----------------------------------------------------------------------------
(* extract_monthly_data: the query of lines 51-55 *)

InWindowInclusive(d, s, e) ==
    IsoFormat(d) >= IsoFormat(s) /\ IsoFormat(d) <= IsoFormat(e)

\* WHERE date_column >= '{start_date}' AND date_column < '{end_date}'
InWindow(d, s, e) ==
    IsoFormat(d) >= IsoFormat(s) /\ IsoFormat(d) < IsoFormat(e)

\* SELECT * FROM {table_name} WHERE ...
Query(t, s, e) == { r \in Source(t) : InWindow(r.date_column, s, e) }

----------------------------------------------------------------------------
(* main: helpers *)

ArgsMissingFromOne(args) == Len(args) < 1

\* line 136: if len(args) < 2
ArgsMissing(args) == Len(args) < 2

\* dict.get: the value, or None for a key the mapping lacks
Get(fields, k) == IF k \in fields THEN k ELSE None

\* line 84: def transform_monthly_data(spark, table_name)
TransformParams == <<"spark", "table_name">>

\* line 173: transform_monthly_data()
TransformCallArgs == <<>>

\* a call binds when every positional parameter gets an argument
CallBinds(params, args) == Len(args) = Len(params)

Entry(level, msg, arg) == [level |-> level, msg |-> msg, arg |-> arg]

Step(name, t) == [step |-> name, table |-> t]

\* the for loop of line 169: the next table, or the statement after the loop
LoopPc(i, n) == IF i <= n THEN "load" ELSE "transform"

ExtractExceptSwallow(i, n) == [pc |-> LoopPc(i + 1, n), idx |-> i + 1, exc |-> "none"]

\* line 79: raise, out of extract_monthly_data and out of the loop
ExtractExceptExit(i, n) == [pc |-> "main_except", idx |-> i, exc |-> "ExtractError"]

\* an exception raised in the try block of main reaches line 177
Raise(e) == /\ exc' = e
            /\ pc' = "main_except"

----------------------------------------------------------------------------
(* One run of main() *)

Frame(cols, rows) == [cols |-> cols, rows |-> rows]

EmptyFrame == Frame({}, <<>>)

\* the import of the module (lines 1-23) and the world it runs in
InitDriver ==
    /\ now \in StartDates
    /\ ticks = 0
    /\ year_month = StrftimeYm(now)
    /\ argv \in Argvs
    /\ secretResp \in SecretResponses
    /\ inserted = {}
    /\ \E stale \in BOOLEAN :
         /\ s3 = IF stale
                 THEN Put(EmptyStore, LandingPath("Bank", StrftimeYm(now)),
                          SetToBag({StaleRow}))
                 ELSE EmptyStore
         /\ prov = [p \in DOMAIN s3 |-> [from |-> {StaleRow}, start |-> NoDate,
                                         end |-> NoDate]]
    /\ pc = "start"
    /\ exc = "none"
    /\ table_names = <<>>
    /\ aurora_credentials = {}
    /\ aurora_properties = [user |-> None, password |-> None, driver |-> None,
                            url |-> None]
    /\ start_date = NoDate
    /\ end_date = NoDate
    /\ idx = 0
    /\ df = {}
    /\ dfFrom = {}
    /\ log = <<>>
    /\ contextCreated = FALSE
    /\ sessionCreated = FALSE
    /\ sessionStopped = FALSE
    /\ secretLookups = 0
    /\ dbReads = 0
    /\ storageWrites = 0
    /\ extFailure = FALSE
    /\ transformCalled = FALSE
    /\ failedAt = 0
    /\ trace = <<>>
    /\ lastWrite = <<>>

Init ==
    /\ InitDriver
    /\ tpc = "idle"
    /\ joined_in = <<>>
    /\ joined_df = EmptyFrame
    /\ tlocals = {}
    /\ final_df = EmptyFrame
    /\ tfailed = FALSE

\* the clock passes midnight
Tick ==
    /\ UNCHANGED tvars
    /\ pc \notin {"main_except", "done"}
    /\ ticks < MaxTicks
    /\ now' = NextDay(now)
    /\ ticks' = ticks + 1
    /\ UNCHANGED <<year_month, argv, secretResp, inserted, s3, pc, exc,
                   table_names, aurora_credentials, aurora_properties, start_date,
                   end_date, idx, df, log, contextCreated, sessionCreated,
                   sessionStopped, secretLookups, dbReads, storageWrites,
                   extFailure, transformCalled, failedAt, trace, dfFrom, prov,
                   lastWrite>>

\* another client of the database adds a row dated today while the tables are
\* being extracted
DbInsert ==
    /\ UNCHANGED tvars
    /\ pc \in {"load", "write"}
    /\ Cardinality(inserted) < MaxInserts
    /\ \E t \in Tables :
         inserted' = inserted \cup {Row(t, now, Cardinality(inserted) + 1)}
    /\ UNCHANGED <<now, ticks, year_month, argv, secretResp, s3, pc, exc,
                   table_names, aurora_credentials, aurora_properties, start_date,
                   end_date, idx, df, log, contextCreated, sessionCreated,
                   sessionStopped, secretLookups, dbReads, storageWrites,
                   extFailure, transformCalled, failedAt, trace, dfFrom, prov,
                   lastWrite>>

\* lines 134-135: glueContext = GlueContext(SparkContext.getOrCreate()); args = ...argv
GetContext ==
    /\ UNCHANGED tvars
    /\ pc = "start"
    /\ \E ok \in BOOLEAN :
         IF ok
         THEN /\ contextCreated' = TRUE
              /\ pc' = "check_args"
              /\ UNCHANGED <<exc, extFailure>>
         ELSE /\ Raise("ContextError")
              /\ extFailure' = TRUE
              /\ UNCHANGED contextCreated
    /\ UNCHANGED <<now, ticks, year_month, argv, secretResp, inserted, s3,
                   table_names, aurora_credentials, aurora_properties, start_date,
                   end_date, idx, df, log, sessionCreated,
                   sessionStopped, secretLookups, dbReads, storageWrites,
                   transformCalled, failedAt, trace, dfFrom, prov, lastWrite>>

\* lines 136-140: the argument check, then table_names = args[1:]
CheckArgs ==
    /\ UNCHANGED tvars
    /\ pc = "check_args"
    /\ IF ArgsMissing(argv)
       THEN /\ Raise("ValueError: No table names provided as job parameters.")
            /\ UNCHANGED table_names
       ELSE /\ table_names' = SubSeq(argv, 2, Len(argv))
            /\ pc' = "create_session"
            /\ UNCHANGED exc
    /\ UNCHANGED <<now, ticks, year_month, argv, secretResp, inserted, s3,
                   aurora_credentials, aurora_properties, start_date,
                   end_date, idx, df, log, contextCreated, sessionCreated,
                   sessionStopped, secretLookups, dbReads, storageWrites,
                   extFailure, transformCalled, failedAt, trace, dfFrom, prov,
                   lastWrite>>

\* line 142 and create_spark_session (lines 38-46)
CreateSparkSession ==
    /\ UNCHANGED tvars
    /\ pc = "create_session"
    /\ \E ok \in BOOLEAN :
         IF ok
         THEN /\ sessionCreated' = TRUE
              /\ pc' = "get_secrets"
              /\ UNCHANGED <<exc, extFailure, log>>
         ELSE /\ log' = log \o << Entry("ERROR", "Failed to create SparkSession.", "-"),
                                  Entry("ERROR", "SessionError", "-") >>
              /\ Raise("SessionError")
              /\ extFailure' = TRUE
              /\ UNCHANGED sessionCreated
    /\ UNCHANGED <<now, ticks, year_month, argv, secretResp, inserted, s3,
                   table_names, aurora_credentials, aurora_properties, start_date,
                   end_date, idx, df, contextCreated,
                   sessionStopped, secretLookups, dbReads, storageWrites,
                   transformCalled, failedAt, trace, dfFrom, prov, lastWrite>>

\* what get_secrets raises for an answer of the store, or "none"
SecretError(resp) ==
    CASE resp.kind = "unavailable" -> "ClientError"
      [] resp.kind = "noValue" ->
            "ValueError: Failed to retrieve secrets from AWS Secrets Manager."
      [] resp.kind = "malformed" -> "JSONDecodeError"
      [] OTHER -> "none"

\* line 145 and get_secrets (lines 25-36)
GetSecrets ==
    /\ UNCHANGED tvars
    /\ pc = "get_secrets"
    /\ secretLookups' = secretLookups + 1
    /\ IF SecretError(secretResp) = "none"
       THEN /\ aurora_credentials' = secretResp.fields
            /\ trace' = Append(trace, Step("RESOLVE_SECRETS", "-"))
            /\ pc' = "properties"
            /\ UNCHANGED <<exc, log, extFailure>>
       ELSE /\ log' = log \o
                 << Entry("ERROR",
                          "Error while retrieving secrets from AWS Secrets Manager.", "-"),
                    Entry("ERROR", SecretError(secretResp), "-") >>
            /\ Raise(SecretError(secretResp))
            /\ extFailure' = TRUE
            /\ UNCHANGED <<aurora_credentials, trace>>
    /\ UNCHANGED <<now, ticks, year_month, argv, secretResp, inserted, s3,
                   table_names, aurora_properties, start_date,
                   end_date, idx, df, contextCreated, sessionCreated,
                   sessionStopped, dbReads, storageWrites,
                   transformCalled, failedAt, dfFrom, prov, lastWrite>>

\* lines 148-158: the endpoint check and the connection properties
BuildProperties ==
    /\ UNCHANGED tvars
    /\ pc = "properties"
    /\ IF Get(aurora_credentials, "endpoint") = None
       THEN /\ Raise("ValueError: Aurora endpoint not found in Secrets Manager response.")
            /\ UNCHANGED aurora_properties
       ELSE /\ aurora_properties' =
                 [user |-> Get(aurora_credentials, "username"),
                  password |-> Get(aurora_credentials, "password"),
                  driver |-> "com.mysql.jdbc.Driver",
                  url |-> "jdbc:mysql://endpoint:3306/BankingDB"]
            /\ pc' = "window"
            /\ UNCHANGED exc
    /\ UNCHANGED <<now, ticks, year_month, argv, secretResp, inserted, s3,
                   table_names, aurora_credentials, start_date,
                   end_date, idx, df, log, contextCreated, sessionCreated,
                   sessionStopped, secretLookups, dbReads, storageWrites,
                   extFailure, transformCalled, failedAt, trace, dfFrom, prov,
                   lastWrite>>

\* lines 160-165: the window of the current month; then the loop of line 169 starts
ComputeWindow ==
    /\ UNCHANGED tvars
    /\ pc = "window"
    /\ start_date' = FirstOfMonth(now)
    /\ end_date' = LastOfMonth(now)
    /\ trace' = Append(trace, Step("COMPUTE_WINDOW", "-"))
    /\ idx' = 1
    /\ pc' = LoopPc(1, Len(table_names))
    /\ UNCHANGED <<now, ticks, year_month, argv, secretResp, inserted, s3, exc,
                   table_names, aurora_credentials, aurora_properties,
                   df, log, contextCreated, sessionCreated,
                   sessionStopped, secretLookups, dbReads, storageWrites,
                   extFailure, transformCalled, failedAt, dfFrom, prov,
                   lastWrite>>

\* extract_monthly_data, lines 51-68: the query and the JDBC load
ExtractLoad ==
    /\ UNCHANGED tvars
    /\ pc = "load"
    /\ dbReads' = dbReads + 1
    /\ LET t == table_names[idx] IN
       \E ok \in BOOLEAN :
         IF ok
         THEN /\ df' = Query(t, start_date, end_date)
              /\ dfFrom' = [from |-> {r \in inserted : r.tbl = t},
                            start |-> start_date, end |-> end_date]
              /\ log' = log \o
                   << Entry("INFO", "Starting data extraction process for table: %s", t),
                      Entry("INFO", "Data loaded successfully from Aurora.", "-") >>
              /\ pc' = "write"
              /\ UNCHANGED <<extFailure, failedAt>>
         ELSE /\ log' = Append(log,
                   Entry("INFO", "Starting data extraction process for table: %s", t))
              /\ pc' = "extract_except"
              /\ extFailure' = TRUE
              /\ failedAt' = idx
              /\ UNCHANGED <<df, dfFrom>>
    /\ UNCHANGED <<now, ticks, year_month, argv, secretResp, inserted, s3, exc,
                   table_names, aurora_credentials, aurora_properties, start_date,
                   end_date, idx, contextCreated, sessionCreated,
                   sessionStopped, secretLookups, storageWrites,
                   transformCalled, trace, prov, lastWrite>>

\* extract_monthly_data, lines 71-74 and 82: the write, then back to the loop
ExtractWrite ==
    /\ UNCHANGED tvars
    /\ pc = "write"
    /\ storageWrites' = storageWrites + 1
    /\ LET t == table_names[idx]
           p == LandingPath(t, year_month)
       IN
       \E ok \in BOOLEAN :
         IF ok
         THEN /\ s3' = WriteOverwrite(s3, p, SetToBag(df))
              /\ prov' = Put(prov, p, dfFrom)
              /\ lastWrite' = << [path |-> p, before |-> s3, after |-> s3',
                                  stored |-> SetToBag(df),
                                  again |-> p \in DOMAIN prov /\ prov[p] = dfFrom] >>
              /\ log' = log \o
                   << Entry("INFO", "Data saved successfully to S3.", "-"),
                      Entry("INFO", "Data extraction process completed for table: %s", t) >>
              /\ trace' = Append(trace, Step("EXTRACT", t))
              /\ idx' = idx + 1
              /\ pc' = LoopPc(idx + 1, Len(table_names))
              /\ UNCHANGED <<extFailure, failedAt>>
         ELSE /\ pc' = "extract_except"
              /\ extFailure' = TRUE
              /\ failedAt' = idx
              /\ UNCHANGED <<s3, prov, lastWrite, log, trace, idx>>
    /\ UNCHANGED <<now, ticks, year_month, argv, secretResp, inserted, exc,
                   table_names, aurora_credentials, aurora_properties, start_date,
                   end_date, df, contextCreated, sessionCreated,
                   sessionStopped, secretLookups, dbReads,
                   transformCalled, dfFrom>>

\* extract_monthly_data, lines 76-82: log with the table name, re-raise
ExtractExcept ==
    /\ UNCHANGED tvars
    /\ pc = "extract_except"
    /\ LET t == table_names[idx]
           exit == ExtractExceptExit(idx, Len(table_names))
       IN
         /\ log' = log \o
              << Entry("ERROR", "An error occurred during data extraction for table: %s", t),
                 Entry("ERROR", "ExtractError", "-"),
                 Entry("INFO", "Data extraction process completed for table: %s", t) >>
         /\ pc' = exit.pc
         /\ idx' = exit.idx
         /\ exc' = exit.exc
    /\ UNCHANGED <<now, ticks, year_month, argv, secretResp, inserted, s3,
                   table_names, aurora_credentials, aurora_properties, start_date,
                   end_date, df, contextCreated, sessionCreated,
                   sessionStopped, secretLookups, dbReads, storageWrites,
                   extFailure, transformCalled, failedAt, trace, dfFrom, prov,
                   lastWrite>>

\* lines 173-175: transform_monthly_data() and, once it has returned, spark.stop()
CallTransform ==
    /\ UNCHANGED tvars
    /\ pc = "transform"
    /\ transformCalled' = TRUE
    /\ IF CallBinds(TransformParams, TransformCallArgs)
       THEN /\ trace' = trace \o << Step("TRANSFORM", "-"), Step("STOP", "-") >>
            /\ log' = log \o << Entry("ERROR", "An unexpected error occurred.", "-"),
                                Entry("ERROR", "UnboundLocalError", "-") >>
            /\ sessionStopped' = TRUE
            /\ pc' = "done"
            /\ UNCHANGED exc
       ELSE /\ Raise("TypeError: missing 2 required positional arguments")
            /\ UNCHANGED <<trace, log, sessionStopped>>
    /\ UNCHANGED <<now, ticks, year_month, argv, secretResp, inserted, s3,
                   table_names, aurora_credentials, aurora_properties, start_date,
                   end_date, idx, df, contextCreated, sessionCreated,
                   secretLookups, dbReads, storageWrites,
                   extFailure, failedAt, dfFrom, prov, lastWrite>>

\* lines 177-179: log the exception; main returns
MainExcept ==
    /\ UNCHANGED tvars
    /\ pc = "main_except"
    /\ log' = log \o << Entry("ERROR", "An unexpected error occurred.", "-"),
                        Entry("ERROR", exc, "-") >>
    /\ pc' = "done"
    /\ UNCHANGED <<now, ticks, year_month, argv, secretResp, inserted, s3, exc,
                   table_names, aurora_credentials, aurora_properties, start_date,
                   end_date, idx, df, contextCreated, sessionCreated,
                   sessionStopped, secretLookups, dbReads, storageWrites,
                   extFailure, transformCalled, failedAt, trace, dfFrom, prov,
                   lastWrite>>

----------------------------------------------------------------------------
(* transform_monthly_data(spark, table_name)                               *)
(* The five loads, the join and the orderBy of lines 89-103 are Spark's:   *)
(* their result, a frame of joined rows, is the environment's choice.      *)

Branches == {"b1", "b2"}
BranchRank == [b \in Branches |-> IF b = "b1" THEN 1 ELSE 2]
IdBranchOf == [b \in Branches |-> IF b = "b1" THEN 11 ELSE 22]
BankOf == [b \in Branches |-> IF b = "b1" THEN "A" ELSE "B"]
Amounts == {100, 400}

\* values of the year_month column, character by character
YmTexts == { <<"2", "0", "2", "3", "-", "0", "1">>,
             <<"2", "0", "2", "3", "-", "0", "2">>,
             <<"2", "0", "2", "3", "0", "3">> }

BaseCols == {"branch", "idBranch", "Name", "year_month", "Amount"}

JoinedRow(b, ym, a) ==
    [branch |-> b, idBranch |-> IdBranchOf[b], Name |-> BankOf[b],
     year_month |-> ym, Amount |-> a]

JoinedInputs ==
    SeqsUpTo({ JoinedRow(b, ym, a) : b \in Branches, ym \in YmTexts, a \in Amounts },
             MaxRows)

DigitVal == [c \in {"0", "1", "2", "3", "4", "5", "6", "7", "8", "9"} |->
               CASE c = "0" -> 0 [] c = "1" -> 1 [] c = "2" -> 2 [] c = "3" -> 3
                 [] c = "4" -> 4 [] c = "5" -> 5 [] c = "6" -> 6 [] c = "7" -> 7
                 [] c = "8" -> 8 [] c = "9" -> 9]

\* line 106: F.to_date('year_month', 'yyyy-MM'): the first day of the month the
\* text spells, or null (NoDate, which an ascending order puts first)
ToDate(s) ==
    IF /\ Len(s) = 7
       /\ s[5] = "-"
       /\ \A i \in {1, 2, 3, 4, 6, 7} : s[i] \in DOMAIN DigitVal
    THEN LET y == DigitVal[s[1]] * 1000 + DigitVal[s[2]] * 100
                  + DigitVal[s[3]] * 10 + DigitVal[s[4]]
             m == DigitVal[s[6]] * 10 + DigitVal[s[7]]
         IN IF m \in 1..12 THEN <<y, m, 1>> ELSE NoDate
    ELSE NoDate

\* strftime('%Y%m%d') of line 115, as the number the digits spell
StrftimeYmd(d) == d[1] * 10000 + d[2] * 100 + d[3]

\* line 121: {s3_base_path}/{transform}/{bank_name}/{year_month}/{bank_name}_{current_date}.csv
SilverPath(bank, ym, date) == Path(transform, bank, ym, File(bank, ".csv", date))

Perms(n) == { f \in [1..n -> 1..n] : \A i, j \in 1..n : i # j => f[i] # f[j] }

\* the arrangements Window.partitionBy('branch').orderBy('loan_date') may give the
\* rows: partition by partition, each by loan_date ascending, ties in any order
WindowOrders(rows) ==
    { ord \in { [i \in 1..Len(rows) |-> rows[f[i]]] : f \in Perms(Len(rows)) } :
        \A i, j \in 1..Len(rows) :
            i < j => /\ BranchRank[ord[i].branch] <= BranchRank[ord[j].branch]
                     /\ ord[i].branch = ord[j].branch =>
                          IsoFormat(ord[i].loan_date) <= IsoFormat(ord[j].loan_date) }

FrameRowsShort(k, n) == { j \in 1..n : k - 1 <= j /\ j <= k }

\* rowsBetween(-2, 0): the positions of the frame of the k-th row of a partition of n
FrameRows(k, n) == { j \in 1..n : k + FrameStart <= j /\ j <= k + FrameEnd }

RECURSIVE SumAmount(_, _)
SumAmount(part, S) ==
    IF S = {} THEN 0
    ELSE LET j == CHOOSE x \in S : TRUE
         IN part[j].Amount + SumAmount(part, S \ {j})

\* F.avg('Amount').over(window_spec) for the k-th row of its partition: sum / count
WindowAvg(part, k) ==
    LET fr == FrameRows(k, Len(part))
    IN [num |-> SumAmount(part, fr), den |-> Cardinality(fr)]

\* line 111: every row of the arranged frame gets the average over its frame
WithAvg(ord) ==
    [i \in 1..Len(ord) |->
        LET part == SelectSeq(ord, LAMBDA r : r.branch = ord[i].branch)
            k == Cardinality({ j \in 1..i : ord[j].branch = ord[i].branch })
        IN [id |-> ord[i].id, branch |-> ord[i].branch, idBranch |-> ord[i].idBranch,
            Name |-> ord[i].Name, year_month |-> ord[i].year_month,
            Amount |-> ord[i].Amount, loan_date |-> ord[i].loan_date,
            avgLoanAmount |-> WindowAvg(part, k)]]

BagOfSeq(rows) ==
    [r \in { rows[i] : i \in DOMAIN rows } |->
        Cardinality({ i \in DOMAIN rows : rows[i] = r })]

\* lines 118-122: the loop over the bank names, final_df rebound in every round
RECURSIVE BankLoop(_, _, _, _)
BankLoop(fdf, names, store, date) ==
    IF names = <<>> THEN [store |-> store, exc |-> "none", final_df |-> fdf]
    ELSE IF ~({"bank_name", "idBranch", "avgLoanAmount"} \subseteq fdf.cols)
    THEN [store |-> store, exc |-> "AttributeError", final_df |-> fdf]
    ELSE LET bn == Head(names)
             kept == SelectSeq(fdf.rows, LAMBDA r : r.bank_name = bn)
             sel == Frame({"idBranch", "avgLoanAmount"},
                          [i \in 1..Len(kept) |->
                              [idBranch |-> kept[i].idBranch,
                               avgLoanAmount |-> kept[i].avgLoanAmount]])
         IN BankLoop(sel, Tail(names),
                     WriteOverwrite(store, SilverPath(bn, year_month, date),
                                    BagOfSeq(sel.rows)),
                     date)

driverRest == <<now, ticks, year_month, argv, secretResp, inserted, pc,
                table_names, aurora_credentials, aurora_properties, start_date,
                end_date, idx, df, contextCreated, sessionCreated,
                sessionStopped, secretLookups, dbReads, storageWrites,
                extFailure, transformCalled, failedAt, trace, dfFrom, prov,
                lastWrite>>

\* the module is imported and transform_monthly_data is called with both arguments
InitTransform ==
    /\ now = <<2023, 4, 15>>
    /\ ticks = 0
    /\ year_month = StrftimeYm(now)
    /\ argv = <<Script>>
    /\ secretResp = [kind |-> "json", fields |-> SecretFields]
    /\ inserted = {}
    /\ s3 = EmptyStore
    /\ prov = EmptyStore
    /\ pc = "idle"
    /\ exc = "none"
    /\ table_names = <<>>
    /\ aurora_credentials = {}
    /\ aurora_properties = [user |-> None, password |-> None, driver |-> None,
                            url |-> None]
    /\ start_date = NoDate
    /\ end_date = NoDate
    /\ idx = 0
    /\ df = {}
    /\ dfFrom = {}
    /\ log = <<>>
    /\ contextCreated = FALSE
    /\ sessionCreated = TRUE
    /\ sessionStopped = FALSE
    /\ secretLookups = 0
    /\ dbReads = 0
    /\ storageWrites = 0
    /\ extFailure = FALSE
    /\ transformCalled = TRUE
    /\ failedAt = 0
    /\ trace = <<>>
    /\ lastWrite = <<>>
    /\ tpc = "t_load"
    /\ joined_in \in JoinedInputs
    /\ joined_df = EmptyFrame
    /\ tlocals = {"spark", "table_name"}
    /\ final_df = EmptyFrame
    /\ tfailed = FALSE

\* lines 89-103: the loads, the join, the orderBy
TLoadJoin ==
    /\ tpc = "t_load"
    /\ \E ok \in BOOLEAN :
         IF ok
         THEN /\ joined_df' =
                   Frame(BaseCols \cup {"id"},
                         [i \in 1..Len(joined_in) |->
                             [id |-> i, branch |-> joined_in[i].branch,
                              idBranch |-> joined_in[i].idBranch,
                              Name |-> joined_in[i].Name,
                              year_month |-> joined_in[i].year_month,
                              Amount |-> joined_in[i].Amount]])
              /\ tlocals' = tlocals \cup {"df1", "df2", "df3", "df4", "df5", "joined_df"}
              /\ tpc' = "t_date"
              /\ UNCHANGED <<exc, tfailed>>
         ELSE /\ exc' = "AnalysisException"
              /\ tfailed' = TRUE
              /\ tpc' = "t_except"
              /\ UNCHANGED <<joined_df, tlocals>>
    /\ UNCHANGED <<driverRest, s3, log, joined_in, final_df>>

\* line 106: the loan_date column
TToDate ==
    /\ tpc = "t_date"
    /\ joined_df' =
         Frame(joined_df.cols \cup {"loan_date"},
               [i \in 1..Len(joined_df.rows) |->
                   LET r == joined_df.rows[i]
                   IN [id |-> r.id, branch |-> r.branch, idBranch |-> r.idBranch,
                       Name |-> r.Name, year_month |-> r.year_month,
                       Amount |-> r.Amount, loan_date |-> ToDate(r.year_month)]])
    /\ tpc' = "t_window"
    /\ UNCHANGED <<driverRest, s3, log, exc, joined_in, tlocals, final_df, tfailed>>

\* lines 110-111: the window and the avgLoanAmount column
TWindow ==
    /\ tpc = "t_window"
    /\ \E ord \in WindowOrders(joined_df.rows) :
         joined_df' = Frame(joined_df.cols \cup {"avgLoanAmount"}, WithAvg(ord))
    /\ tlocals' = tlocals \cup {"window_spec"}
    /\ tpc' = "t_banks"
    /\ UNCHANGED <<driverRest, s3, log, exc, joined_in, final_df, tfailed>>

\* lines 115-122: the bank names of final_df and one file per bank
TWriteBanks ==
    /\ tpc = "t_banks"
    /\ tlocals' = tlocals \cup {"current_date"}
    /\ IF "final_df" \in tlocals
       THEN IF "Name" \in final_df.cols
            THEN \E names \in { ns \in SeqsUpTo({"A", "B"}, 2) :
                                  /\ { ns[i] : i \in DOMAIN ns } =
                                       { final_df.rows[i].Name : i \in DOMAIN final_df.rows }
                                  /\ Len(ns) = Cardinality({ ns[i] : i \in DOMAIN ns }) } :
                   LET out == BankLoop(final_df, names, s3, StrftimeYmd(now))
                   IN /\ s3' = out.store
                      /\ final_df' = out.final_df
                      /\ exc' = out.exc
                      /\ tpc' = IF out.exc = "none" THEN "t_done" ELSE "t_except"
            ELSE /\ exc' = "AnalysisException"
                 /\ tpc' = "t_except"
                 /\ UNCHANGED <<s3, final_df>>
       ELSE /\ exc' = "UnboundLocalError"
            /\ tpc' = "t_except"
            /\ UNCHANGED <<s3, final_df>>
    /\ UNCHANGED <<driverRest, log, joined_in, joined_df, tfailed>>

\* lines 127-129: log the exception; the function returns
TExcept ==
    /\ tpc = "t_except"
    /\ log' = log \o << Entry("ERROR", "An unexpected error occurred.", "-"),
                        Entry("ERROR", exc, "-") >>
    /\ tpc' = "t_done"
    /\ UNCHANGED <<driverRest, s3, exc, joined_in, joined_df, tlocals, final_df, tfailed>>

NextTransform ==
    \/ TLoadJoin
    \/ TToDate
    \/ TWindow
    \/ TWriteBanks
    \/ TExcept

SpecTransform == InitTransform /\ [][NextTransform]_vars

Next ==
    \/ Tick
    \/ DbInsert
    \/ GetContext
    \/ CheckArgs
    \/ CreateSparkSession
    \/ GetSecrets
    \/ BuildProperties
    \/ ComputeWindow
    \/ ExtractLoad
    \/ ExtractWrite
    \/ ExtractExcept
    \/ CallTransform
    \/ MainExcept

Spec == Init /\ [][Next]_vars

----------------------------------------------------------------------------
(* Properties *)

ConfigValid ==
    /\ Len(argv) >= 2
    /\ secretResp.kind = "json"
    /\ secretResp.fields = SecretFields

ExpectedTrace ==
    << Step("RESOLVE_SECRETS", "-"), Step("COMPUTE_WINDOW", "-") >>
    \o [i \in 1..(Len(argv) - 1) |-> Step("EXTRACT", argv[i + 1])]
    \o << Step("TRANSFORM", "-"), Step("STOP", "-") >>

\* C1: a run of main in which the configuration is valid and no library call
\* fails ends having taken the steps RESOLVE_SECRETS, COMPUTE_WINDOW,
\* EXTRACT(table_1) ... EXTRACT(table_n), TRANSFORM, STOP in this order, every
\* table of the command line extracted once, in argument order.
C1_DriverOrder ==
    (pc = "done" /\ ConfigValid /\ ~extFailure) =>
        (trace = ExpectedTrace /\ sessionStopped)

NoTablesError == "ValueError: No table names provided as job parameters."

ExtractSteps == SelectSeq(trace, LAMBDA st : st.step = "EXTRACT")

\* C3: once extract_monthly_data has failed for table k, the error is logged
\* with the table name and re-raised to main; no later table is extracted, the
\* transform is not invoked, and main logs the error and returns.
C3_ExtractFailureEndsRun ==
    failedAt > 0 =>
        /\ idx = failedAt
        /\ dbReads = failedAt
        /\ Len(ExtractSteps) = failedAt - 1
        /\ ~transformCalled
        /\ ~sessionStopped
        /\ pc \in {"extract_except", "main_except", "done"}
        /\ pc \in {"main_except", "done"} =>
             /\ exc = "ExtractError"
             /\ \E i \in DOMAIN log :
                  log[i] = Entry("ERROR",
                      "An error occurred during data extraction for table: %s",
                      table_names[failedAt])
        /\ pc = "done" =>
             /\ log[Len(log) - 1] = Entry("ERROR", "An unexpected error occurred.", "-")
             /\ log[Len(log)] = Entry("ERROR", "ExtractError", "-")

C3_Witness ==
    /\ failedAt = 1
    /\ Len(table_names) = 2
    /\ storageWrites = 1
    /\ pc = "done"

\* C4: in a run where the driver has invoked the transform, the session
\* teardown spark.stop() has been reached by the time main ends.
C4_TransformThenStop ==
    (pc = "done" /\ transformCalled) => sessionStopped

Windowed == tpc \in {"t_banks", "t_except", "t_done"} /\ "avgLoanAmount" \in joined_df.cols

BranchPart(rows, b) == SelectSeq(rows, LAMBDA r : r.branch = b)

\* the ratio a is the sum s over n rows
MeanIs(a, s, n) == a.den > 0 /\ a.num * n = s * a.den

BankNames == { joined_in[i].Name : i \in DOMAIN joined_in }

\* the (idBranch, avgLoanAmount) rows of the branches of one bank
BankRows(bank) ==
    LET kept == SelectSeq(joined_df.rows, LAMBDA r : r.Name = bank)
    IN BagOfSeq([i \in DOMAIN kept |-> [idBranch |-> kept[i].idBranch,
                                        avgLoanAmount |-> kept[i].avgLoanAmount]])

\* C6: when the transform has returned without a library failure, the
\* transformed area holds exactly one file per distinct bank name, and the file
\* of a bank holds exactly the (idBranch, avgLoanAmount) rows of its branches.
C6_OneFilePerBank ==
    (tpc = "t_done" /\ ~tfailed) =>
        /\ DOMAIN s3 = { SilverPath(b, year_month, StrftimeYmd(now)) : b \in BankNames }
        /\ \A b \in BankNames :
             s3[SilverPath(b, year_month, StrftimeYmd(now))] = BankRows(b)

\* the last calendar day of the months a run can fall in
ExpectedLastDay(y, m) ==
    CASE <<y, m>> = <<2023, 2>> -> 28
      [] <<y, m>> = <<2023, 4>> -> 30
      [] <<y, m>> = <<2024, 2>> -> 29
      [] <<y, m>> \in { <<2023, 3>>, <<2023, 5>>, <<2023, 12>>,
                        <<2024, 1>>, <<2024, 3>> } -> 31

\* C7: main sets start_date to the first and end_date to the last calendar day
\* of the month the clock shows at line 160, and the load of extract_monthly_data
\* returns exactly the rows of the table dated from start_date up to, and not
\* including, end_date.
C7_MonthWindow ==
    [][ /\ (pc = "window" /\ pc' # "window") =>
            /\ start_date' = <<now[1], now[2], 1>>
            /\ end_date' = <<now[1], now[2], ExpectedLastDay(now[1], now[2])>>
        /\ (pc = "load" /\ pc' = "write") =>
            df' = { r \in Source(table_names[idx]) :
                      /\ r.date_column[1] = start_date[1]
                      /\ r.date_column[2] = start_date[2]
                      /\ r.date_column[3] >= 1
                      /\ r.date_column[3] < ExpectedLastDay(start_date[1], start_date[2]) }
      ]_vars

C7_Witness ==
    /\ pc = "write"
    /\ start_date = <<2024, 2, 1>>
    /\ end_date = <<2024, 2, 29>>
    /\ Row("Loan", <<2024, 2, 1>>, 0) \in df
    /\ Row("Loan", <<2024, 2, 28>>, 0) \in df
    /\ Row("Loan", <<2024, 2, 29>>, 0) \notin df
    /\ Row("Loan", <<2024, 1, 31>>, 0) \notin df

\* C8: every landing object lies at the path of its (table, year_month); a
\* completed extraction leaves at that path exactly the rows it loaded, whatever
\* was there before, and touches no other path; and an extraction repeated for
\* the same table and window on an unchanged source leaves the landing area as
\* it found it.
C8_ExtractIdempotent ==
    /\ \A p \in DOMAIN s3 : p = LandingPath(p.dir, year_month)
    /\ lastWrite # <<>> =>
         LET w == lastWrite[1] IN
         /\ DOMAIN w.after = DOMAIN w.before \cup {w.path}
         /\ w.after[w.path] = w.stored
         /\ \A p \in DOMAIN w.before \ {w.path} : w.after[p] = w.before[p]
         /\ w.again => w.after = w.before

C8_Witness ==
    /\ lastWrite # <<>>
    /\ lastWrite[1].again
    /\ lastWrite[1].stored # EmptyBag
    /\ Cardinality(DOMAIN s3) = 1
    /\ inserted # {}

SecretIncomplete == secretResp.kind # "json" \/ secretResp.fields # SecretFields

\* C9: when the secret store gives no value or a secret that lacks endpoint,
\* username or password, the run aborts before any extraction:
\* extract_monthly_data is never invoked and nothing is written.
C9_SecretFieldsRequired ==
    SecretIncomplete =>
        /\ pc \notin {"load", "write", "extract_except"}
        /\ dbReads = 0
        /\ storageWrites = 0

\* C10: the year-month key of the path an extraction writes to denotes the
\* month of the date window its rows were queried with.
C10_KeyMatchesWindow ==
    lastWrite # <<>> => lastWrite[1].path.ym = StrftimeYm(start_date)

====
